---- MODULE Spec2Model ----
(***************************************************************************)
(* A model of the radio frame layer of evofw3: frame.c (edge capture, RX   *)
(* frame state machine, bit decoder, TX frame state machine, frame_work)   *)
(* and of the sw_uart.c variant of the receive path.                       *)
(***************************************************************************)
EXTENDS Integers, Sequences, FiniteSets, TLC

(***************************************************************************)
(* BIT constants (frame.c 29-43, sw_uart.c 34-48)                          *)
(***************************************************************************)
ONE_BIT == 13
HALF_BIT == 7
BIT_TOL == 4
MIN_BIT == ONE_BIT - BIT_TOL
MAX_BIT == ONE_BIT + BIT_TOL
NINE_BITS == 9 * ONE_BIT
NINE_BITS_MIN == NINE_BITS - HALF_BIT
NINE_BITS_MAX == NINE_BITS + HALF_BIT
TEN_BITS == 10 * ONE_BIT
TEN_BITS_MIN == TEN_BITS - HALF_BIT
TEN_BITS_MAX == TEN_BITS + HALF_BIT
STOP_BITS_MAX == 14 * ONE_BIT + HALF_BIT
SW_STOP_BITS_MAX == TEN_BITS + NINE_BITS - HALF_BIT
MAX_EDGE == 24
PREAMBLE_MAX == 8 * 8
END_BYTE == 172
SW_END_BYTE == 53

(* uint8_t and uint16_t arithmetic *)
U8(x) == x % 256
U16(x) == x % 65536
Shr(x, n) == IF n = 0 THEN x ELSE IF n = 1 THEN x \div 2 ELSE x \div 4
Min(a, b) == IF a < b THEN a ELSE b

(***************************************************************************)
(* enum rx_states / enum tx_states                                         *)
(***************************************************************************)
RX_OFF == "RX_OFF"
RX_IDLE == "RX_IDLE"
RX_HIGH == "RX_HIGH"
RX_LOW == "RX_LOW"
RX_SYNC1 == "RX_SYNC1"
RX_STOP == "RX_STOP"
RX_FRAME0 == "RX_FRAME0"
RX_FRAME == "RX_FRAME"
RX_DONE == "RX_DONE"

TX_OFF == "TX_OFF"
TX_IDLE == "TX_IDLE"
TX_PREAMBLE == "TX_PREAMBLE"
TX_SYNC == "TX_SYNC"
TX_MSG == "TX_MSG"
TX_TRAIN == "TX_TRAIN"
TX_DONE == "TX_DONE"

(***************************************************************************)
(* struct rx_state.  Edges[i] is kept as the sequence of the entries       *)
(* written since the last memset; entries beyond its length are 0.         *)
(* rx.edges is always rx.Edges[rx.idx] and is not stored.                  *)
(***************************************************************************)
RxZero ==
  [ time |-> 0, lastTime |-> 0, time0 |-> 0, level |-> 0, lastLevel |-> 0,
    state |-> RX_OFF, preamble |-> 0, nByte |-> 0, lastByte |-> 0,
    Edges |-> << <<>>, <<>> >>, NEdges |-> <<0, 0>>, idx |-> 0, nEdges |-> 0 ]

rx_reset == RxZero

EdgeAt(buf, i) == IF i <= Len(buf) THEN buf[i] ELSE 0
EdgePut(buf, i, v) ==
  [j \in 1..(IF i > Len(buf) THEN i ELSE Len(buf)) |-> IF j = i THEN v ELSE EdgeAt(buf, j)]

(***************************************************************************)
(* FRAME detection.  Every state handler returns the new state, the        *)
(* updated rx object and the calls it made that leave the rx object        *)
(* (fx): "MSG_START", "rx_stop", "SW_INT".                                 *)
(***************************************************************************)
rx_idle(r) ==
  [state |-> IF r.level # 0 THEN RX_HIGH ELSE RX_IDLE, rx |-> r, fx |-> <<>>]

rx_preamble_wraps(r, interval) ==
  IF interval >= MIN_BIT /\ interval <= MAX_BIT
  THEN [r EXCEPT !.preamble = U8(r.preamble + 1)]
  ELSE [r EXCEPT !.preamble = 0]

rx_preamble(r, interval) ==
  IF interval >= MIN_BIT /\ interval <= MAX_BIT
  THEN IF r.preamble < PREAMBLE_MAX
       THEN [r EXCEPT !.preamble = r.preamble + 1]
       ELSE r
  ELSE [r EXCEPT !.preamble = 0]

rx_high(r, interval) ==
  IF r.level = 0
  THEN [state |-> IF interval >= NINE_BITS_MIN THEN RX_SYNC1 ELSE RX_LOW,
        rx |-> rx_preamble(r, interval), fx |-> <<>>]
  ELSE [state |-> RX_HIGH, rx |-> r, fx |-> <<>>]

rx_low(r, interval) ==
  IF r.level # 0
  THEN [state |-> RX_HIGH, rx |-> rx_preamble(r, interval), fx |-> <<>>]
  ELSE [state |-> RX_LOW, rx |-> r, fx |-> <<>>]

rx_sync1(r, interval) ==
  IF r.level # 0
  THEN [state |-> IF interval >= NINE_BITS_MIN /\ interval <= TEN_BITS_MAX
                  THEN RX_STOP ELSE RX_HIGH,
        rx |-> rx_preamble(r, interval), fx |-> <<>>]
  ELSE [state |-> RX_SYNC1, rx |-> r, fx |-> <<>>]

rx_frame_start == <<"MSG_START">>

rx_stop_bit(r, interval) ==
  IF r.level = 0
  THEN [state |-> RX_FRAME0, rx |-> r, fx |-> rx_frame_start]
  ELSE [state |-> RX_STOP, rx |-> r, fx |-> <<>>]

rx_frame_end == <<"rx_stop">>

rx_byte(r) ==
  [r EXCEPT !.nByte = U8(r.nByte + 1),
            !.NEdges[r.idx + 1] = r.nEdges,
            !.idx = 1 - r.idx,
            !.nEdges = 0]

(* rx.edges[rx.nEdges++] = interval.  Edges[2][24], NEdges[2], idx and      *)
(* nEdges are adjacent in struct rx_state: past Edges[0] lies Edges[1],     *)
(* past Edges[1] lie NEdges[0] and NEdges[1].  Writes further out (idx,     *)
(* nEdges, the pointer edges) are beyond what the model follows.            *)
rx_put(r, interval) ==
  LET n == r.nEdges IN
  IF n < MAX_EDGE
  THEN [r EXCEPT !.Edges[r.idx + 1] = EdgePut(r.Edges[r.idx + 1], n + 1, interval),
                 !.nEdges = n + 1]
  ELSE IF r.idx = 0
       THEN [r EXCEPT !.Edges[2] = EdgePut(r.Edges[2], n - MAX_EDGE + 1, interval),
                      !.nEdges = U8(n + 1)]
       ELSE [r EXCEPT !.NEdges[n - MAX_EDGE + 1] = interval, !.nEdges = U8(n + 1)]

rx_frame(r0, interval) ==
  LET r == rx_put(r0, interval) IN
  IF interval > TEN_BITS_MIN
  THEN IF interval < STOP_BITS_MAX /\ r.level = 0
       THEN [state |-> RX_FRAME0, rx |-> rx_byte(r), fx |-> <<"SW_INT">>]
       ELSE [state |-> RX_DONE, rx |-> r, fx |-> rx_frame_end]
  ELSE IF r.lastByte = END_BYTE
       THEN [state |-> RX_DONE, rx |-> r, fx |-> rx_frame_end]
       ELSE [state |-> RX_FRAME, rx |-> r, fx |-> <<>>]

(* rx_edge: the new rx object (its state set), synch and the calls made *)
rx_edge_always_synch(r, interval) ==
  LET h == CASE r.state = RX_IDLE -> rx_idle(r)
             [] r.state = RX_LOW -> rx_low(r, interval)
             [] r.state = RX_HIGH -> rx_high(r, interval)
             [] r.state = RX_SYNC1 -> rx_sync1(r, interval)
             [] r.state = RX_STOP -> rx_stop_bit(r, interval)
             [] r.state \in {RX_FRAME0, RX_FRAME} -> rx_frame(r, interval)
             [] OTHER -> [state |-> r.state, rx |-> r, fx |-> <<>>]
  IN [rx |-> [h.rx EXCEPT !.state = h.state],
      synch |-> 1,
      fx |-> h.fx]

rx_edge(r, interval) ==
  LET h == CASE r.state = RX_IDLE -> rx_idle(r)
             [] r.state = RX_LOW -> rx_low(r, interval)
             [] r.state = RX_HIGH -> rx_high(r, interval)
             [] r.state = RX_SYNC1 -> rx_sync1(r, interval)
             [] r.state = RX_STOP -> rx_stop_bit(r, interval)
             [] r.state \in {RX_FRAME0, RX_FRAME} -> rx_frame(r, interval)
             [] OTHER -> [state |-> r.state, rx |-> r, fx |-> <<>>]
  IN [rx |-> [h.rx EXCEPT !.state = h.state],
      synch |-> IF h.state = RX_FRAME THEN 0 ELSE 1,
      fx |-> h.fx]

(***************************************************************************)
(* ISR(GDO2_INT_VECT) of frame.c: clock is RX_CLOCK (TCNT1) and pin the    *)
(* level of GDO2 when the handler runs.  interval is the uint8_t handed to *)
(* rx_edge, elapsed the value of the expression before it is stored.       *)
(***************************************************************************)
EdgeElapsed(r, clock, shift) == Shr(U16(clock - r.time0), shift)

EdgeInterval(r, clock, shift) == U8(EdgeElapsed(r, clock, shift))

GDO2_ISR(r0, clock, pin, shift) ==
  LET r == [r0 EXCEPT !.time = clock, !.level = pin] IN
  IF r.level # r.lastLevel
  THEN LET interval == EdgeInterval(r, clock, shift)
           e == rx_edge(r, interval)
       IN [rx |-> [e.rx EXCEPT !.time0 = IF e.synch = 1 THEN r.time ELSE e.rx.time0,
                               !.lastLevel = r.level,
                               !.lastTime = r.time],
           fx |-> e.fx, edge |-> TRUE, interval |-> interval]
  ELSE [rx |-> r, fx |-> <<>>, edge |-> FALSE, interval |-> 0]

(***************************************************************************)
(* Edge analysis: rx_process_edges of frame.c.  All locals are uint8_t.    *)
(* d is the record of the locals rx_byte, rx_t, rx_tBit, rx_hi.            *)
(***************************************************************************)
ShiftMsb_down(byte, bit) == (byte \div 2) + 128 * bit

ShiftMsb(byte, bit) == U8(byte * 2) + bit

ShiftLsb_up(byte, bit) == U8(byte * 2) + bit

ShiftLsb(byte, bit) == (byte \div 2) + 128 * bit

RECURSIVE ProcessSamples(_, _, _, _)
ProcessSamples(d, samples, isHi, msbFirst) ==
  IF samples = 0 THEN d
  ELSE
    LET dist == U8(d.tBit - d.t)
        tBit == IF dist > samples THEN samples ELSE dist
        hi == IF isHi = 1 THEN U8(d.hi + tBit) ELSE d.hi
        t == U8(d.t + tBit)
        left == U8(samples - tBit)
        bit == IF hi > HALF_BIT THEN 1 ELSE 0
        d1 == IF t = d.tBit
              THEN [byte |-> IF d.tBit # ONE_BIT /\ d.tBit < TEN_BITS
                             THEN IF msbFirst THEN ShiftMsb(d.byte, bit)
                                  ELSE ShiftLsb(d.byte, bit)
                             ELSE d.byte,
                    nbits |-> IF d.tBit # ONE_BIT /\ d.tBit < TEN_BITS
                              THEN d.nbits + 1 ELSE d.nbits,
                    t |-> t, tBit |-> U8(d.tBit + ONE_BIT), hi |-> 0]
              ELSE [d EXCEPT !.t = t, !.hi = hi]
    IN ProcessSamples(d1, left, isHi, msbFirst)

RECURSIVE ProcessEdges(_, _, _, _, _, _)
ProcessEdges(d, edges, i, nEdges, isHi, msbFirst) ==
  IF i > nEdges THEN d
  ELSE
    LET interval == EdgeAt(edges, i)
        d1 == IF d.tBit < TEN_BITS
              THEN ProcessSamples(d, U8(interval - d.t), isHi, msbFirst)
              ELSE d
    IN ProcessEdges(d1, edges, i + 1, nEdges, 1 - isHi, msbFirst)

DecodeInit == [byte |-> 0, nbits |-> 0, t |-> 0, tBit |-> ONE_BIT, hi |-> 0]

rx_process_edges(edges, nEdges) ==
  ProcessEdges(DecodeInit, edges, 1, nEdges, 0, TRUE).byte

(***************************************************************************)
(* TX processing of frame.c.  tx.msg is 0 (null) or the handle of the      *)
(* message in flight; body is what msg_tx_byte has still to return for it. *)
(***************************************************************************)
TRAIN == 170
TX_PREAMBLE_LEN == 4
TX_TRAIN_LEN == 2
SYNC0 == 255
SYNC1 == 0
TX_START_BIT == 10
TX_STOP_BIT == 1

TxZero == [state |-> TX_OFF, count |-> 0, byte |-> 0, bit |-> 0, msg |-> 0]

tx_reset == TxZero

(* message layer: msg_tx_byte returns the next byte of the body, 0 at its end *)
msg_tx_byte(body) == IF body = <<>> THEN 0 ELSE Head(body)

msg_tx_rest(body) == IF body = <<>> THEN body ELSE Tail(body)

tx_set_byte(t, byte) ==
  [t EXCEPT !.byte = byte, !.bit = TX_START_BIT, !.count = U8(t.count + 1)]

tx_done(t, body) == [state |-> TX_DONE, tx |-> t, body |-> body, fx |-> <<>>]

tx_frame_end == <<"tx_stop">>

(* training that never ends the frame *)
tx_train_endless(t, body) ==
  IF t.count < TX_TRAIN_LEN
  THEN [state |-> TX_TRAIN, tx |-> tx_set_byte(t, TRAIN), body |-> body, fx |-> <<>>]
  ELSE [state |-> TX_TRAIN, tx |-> tx_set_byte([t EXCEPT !.count = 0], TRAIN),
        body |-> body, fx |-> <<>>]

tx_train(t, body) ==
  IF t.count < TX_TRAIN_LEN
  THEN [state |-> TX_TRAIN, tx |-> tx_set_byte(t, TRAIN), body |-> body, fx |-> <<>>]
  ELSE [tx_done([t EXCEPT !.count = 0], body) EXCEPT !.fx = tx_frame_end]

tx_msg(t, body) ==
  LET byte == msg_tx_byte(body) IN
  IF byte # 0
  THEN [state |-> TX_MSG, tx |-> tx_set_byte(t, byte),
        body |-> msg_tx_rest(body), fx |-> <<"msg_tx_byte">>]
  ELSE LET h == tx_train([t EXCEPT !.count = 0], msg_tx_rest(body))
       IN [h EXCEPT !.fx = <<"msg_tx_byte">> \o h.fx]

tx_sync_once(t, body) ==
  IF t.count < 1
  THEN [state |-> TX_SYNC,
        tx |-> tx_set_byte(t, IF t.count = 0 THEN SYNC0 ELSE SYNC1),
        body |-> body, fx |-> <<>>]
  ELSE tx_msg([t EXCEPT !.count = 0], body)

tx_sync(t, body) ==
  IF t.count < 2
  THEN [state |-> TX_SYNC,
        tx |-> tx_set_byte(t, IF t.count = 0 THEN SYNC0 ELSE SYNC1),
        body |-> body, fx |-> <<>>]
  ELSE tx_msg([t EXCEPT !.count = 0], body)

tx_preamble(t, body) ==
  IF t.count < TX_PREAMBLE_LEN
  THEN [state |-> TX_PREAMBLE, tx |-> tx_set_byte(t, TRAIN), body |-> body, fx |-> <<>>]
  ELSE tx_sync([t EXCEPT !.count = 0], body)

tx_idle(t0, body) ==
  LET t == [t0 EXCEPT !.count = 0] IN
  IF t.msg = 0 THEN tx_done(t, body) ELSE tx_preamble(t, body)

(* a data bit taken from the bottom of the byte *)
tx_level_lsb(t) ==
  IF t.bit = TX_START_BIT THEN 0
  ELSE IF t.bit = TX_STOP_BIT THEN 1
  ELSE t.byte % 2

(* the level tx_frame drives on GDO0 for this tick *)
tx_level(t) ==
  IF t.bit = TX_START_BIT THEN 0
  ELSE IF t.bit = TX_STOP_BIT THEN 1
  ELSE IF t.byte >= 128 THEN 1 ELSE 0

(* tx_frame: line is the level driven, -1 when the tick drives nothing *)
tx_frame(t0, body) ==
  IF t0.state = TX_OFF
  THEN [tx |-> t0, body |-> body, fx |-> <<>>, line |-> -1]
  ELSE
    LET shifted == IF t0.bit = TX_START_BIT \/ t0.bit = TX_STOP_BIT
                   THEN t0.byte ELSE U8(t0.byte * 2)
        t == [t0 EXCEPT !.byte = shifted, !.bit = U8(t0.bit - 1)]
        h == CASE t.state = TX_IDLE -> tx_idle(t, body)
               [] t.state = TX_PREAMBLE -> tx_preamble(t, body)
               [] t.state = TX_SYNC -> tx_sync(t, body)
               [] t.state = TX_MSG -> tx_msg(t, body)
               [] t.state = TX_TRAIN -> tx_train(t, body)
               [] t.state = TX_DONE -> tx_done(t, body)
               [] OTHER -> [state |-> t.state, tx |-> t, body |-> body, fx |-> <<>>]
    IN IF t.bit = 0
       THEN [tx |-> [h.tx EXCEPT !.state = h.state], body |-> h.body,
             fx |-> h.fx, line |-> tx_level(t0)]
       ELSE [tx |-> t, body |-> body, fx |-> <<>>, line |-> tx_level(t0)]

(***************************************************************************)
(* The receive path of sw_uart.c.  Its rx object has the fields of the one *)
(* of frame.c and overflow; its handlers keep the names of the source with *)
(* uart_ put in front.  fx: "SW_INT", "abort", "too many edges".            *)
(***************************************************************************)
RX_SYNCH == "RX_SYNCH"
RX_SYNCH0 == "RX_SYNCH0"

UartRxZero ==
  [ time |-> 0, lastTime |-> 0, time0 |-> 0, overflow |-> 0, level |-> 0,
    lastLevel |-> 0, state |-> RX_OFF, preamble |-> 0, nByte |-> 0,
    lastByte |-> 0, Edges |-> << <<>>, <<>> >>, NEdges |-> <<0, 0>>,
    idx |-> 0, nEdges |-> 0 ]

uart_rx_reset == UartRxZero

uart_rx_idle(r) ==
  [state |-> IF r.level # 0 THEN RX_HIGH ELSE RX_IDLE, rx |-> r, fx |-> <<>>]

uart_rx_high(r, interval) ==
  [state |-> IF r.level = 0
             THEN IF interval >= NINE_BITS_MIN THEN RX_SYNC1 ELSE RX_LOW
             ELSE RX_HIGH,
   rx |-> r, fx |-> <<>>]

uart_rx_low(r, interval) ==
  [state |-> IF r.level # 0 THEN RX_HIGH ELSE RX_LOW, rx |-> r, fx |-> <<>>]

uart_rx_sync1(r, interval) ==
  [state |-> IF r.level # 0
             THEN IF interval >= NINE_BITS_MIN /\ interval <= TEN_BITS_MAX
                  THEN RX_STOP ELSE RX_HIGH
             ELSE RX_SYNC1,
   rx |-> r, fx |-> <<>>]

uart_rx_stop_bit(r, interval) ==
  [state |-> IF r.level = 0 THEN RX_SYNCH0 ELSE RX_STOP, rx |-> r, fx |-> <<>>]

uart_rx_byte(r) ==
  [r EXCEPT !.nByte = U8(r.nByte + 1),
            !.NEdges[r.idx + 1] = r.nEdges,
            !.idx = 1 - r.idx,
            !.nEdges = 0]

uart_rx_abort(r, code) ==
  [state |-> IF r.level # 0 THEN RX_HIGH ELSE RX_SYNC1,
   rx |-> uart_rx_byte([r EXCEPT !.lastByte = code]),
   fx |-> <<"abort", "SW_INT">>]

(* code is the value of FRM_LOST_SYNC *)
uart_rx_synch(r0, interval, code) ==
  IF r0.nEdges < MAX_EDGE
  THEN LET r == [r0 EXCEPT !.Edges[r0.idx + 1] =
                             EdgePut(r0.Edges[r0.idx + 1], r0.nEdges + 1, interval),
                           !.nEdges = r0.nEdges + 1]
       IN IF interval > TEN_BITS_MIN
          THEN IF interval < SW_STOP_BITS_MAX /\ r.level = 0
               THEN [state |-> RX_SYNCH0, rx |-> uart_rx_byte(r), fx |-> <<"SW_INT">>]
               ELSE uart_rx_abort(r, code)
          ELSE IF r.lastByte = SW_END_BYTE
               THEN [state |-> RX_IDLE, rx |-> r, fx |-> <<>>]
               ELSE [state |-> RX_SYNCH, rx |-> r, fx |-> <<>>]
  ELSE [uart_rx_abort(r0, code) EXCEPT !.fx = <<"too many edges">> \o @]

uart_rx_edge(r, interval, code) ==
  LET h == CASE r.state = RX_IDLE -> uart_rx_idle(r)
             [] r.state = RX_LOW -> uart_rx_low(r, interval)
             [] r.state = RX_HIGH -> uart_rx_high(r, interval)
             [] r.state = RX_SYNC1 -> uart_rx_sync1(r, interval)
             [] r.state = RX_STOP -> uart_rx_stop_bit(r, interval)
             [] r.state \in {RX_SYNCH0, RX_SYNCH} -> uart_rx_synch(r, interval, code)
             [] OTHER -> [state |-> r.state, rx |-> r, fx |-> <<>>]
  IN [rx |-> [h.rx EXCEPT !.state = h.state],
      synch |-> IF h.state = RX_SYNCH THEN 0 ELSE 1,
      fx |-> h.fx]

(* the uint16_t interval of rx_edge_detected before rx_edge truncates it   *)
uart_interval(r, shift) ==
  IF r.overflow # 0 /\ (r.overflow > 1 \/ r.time > r.time0)
  THEN 255
  ELSE LET d == Shr(U16(r.time - r.time0), shift) IN IF d > 255 THEN 255 ELSE d

uart_rx_edge_detected(r0, shift, code) ==
  LET interval == uart_interval(r0, shift)
      r == [r0 EXCEPT !.overflow = 0]
      e == uart_rx_edge(r, U8(interval), code)
  IN [rx |-> [e.rx EXCEPT !.time0 = IF e.synch = 1 THEN r.time ELSE e.rx.time0,
                          !.lastLevel = r.level,
                          !.lastTime = r.time],
      fx |-> e.fx, edge |-> TRUE, interval |-> U8(interval)]

(* ISR(GDO2_INT_VECT) of sw_uart.c *)
uart_GDO2_ISR(r0, clock, pin, shift, code) ==
  LET r == [r0 EXCEPT !.time = clock, !.level = pin] IN
  IF r.level # r.lastLevel
  THEN uart_rx_edge_detected(r, shift, code)
  ELSE [rx |-> r, fx |-> <<>>, edge |-> FALSE, interval |-> 0]

(* ISR(TIMER1_OVF_vect) of sw_uart.c; rx_edge_detected works on the time   *)
(* and level that the last edge interrupt left in rx                       *)
uart_TIMER1_OVF_ISR(r0, shift, code) ==
  LET r == [r0 EXCEPT !.overflow = U8(r0.overflow + 1)] IN
  IF r.overflow > 1
  THEN uart_rx_edge_detected(r, shift, code)
  ELSE [rx |-> r, fx |-> <<>>, edge |-> FALSE, interval |-> 0]

(* TOIE1 is the number of the overflow-enable bit in TIMSK1 (bit 0 on the  *)
(* ATmega32U4), not its mask                                               *)
TOIE1 == 0

RECURSIVE BitOr(_, _)
BitOr(a, b) ==
  IF a = 0 THEN b
  ELSE IF b = 0 THEN a
  ELSE (IF a % 2 = 1 \/ b % 2 = 1 THEN 1 ELSE 0) + 2 * BitOr(a \div 2, b \div 2)

(* rx_init of sw_uart.c: clockShift is kept in h.shift; TIMSK1 |= TOIE1 *)
uart_rx_init(h) == [h EXCEPT !.timsk1 = BitOr(h.timsk1, TOIE1)]

(* rx_process_edges of sw_uart.c: as in frame.c, the bits shifted in from  *)
(* the top                                                                 *)
uart_rx_process_edges(edges, nEdges) ==
  ProcessEdges(DecodeInit, edges, 1, nEdges, 0, FALSE).byte

(***************************************************************************)
(* The frame layer as a system: frame_work in the foreground, preempted    *)
(* by the edge ISR, the TX bit-timer ISR and the decoder ISR.              *)
(*   rx, tx  the two state objects of frame.c                              *)
(*   hw      shift: clockShift;                                            *)
(*           eimsk: GDO2 edge interrupt enabled; pcif/pcie: pin-change     *)
(*           (software) interrupt flag / enable; timsk0: TX bit timer      *)
(*           interrupt enabled; radio: mode of the CC1101; gdo0: TX line   *)
(*   pc      position of the foreground inside frame_work                  *)
(*   dec     the active invocations of ISR(SW_INT_VECT), innermost last    *)
(*   ml      message layer: body left to send, calls of msg_tx_get/done    *)
(*   up      calls of msg_rx_byte / msg_rx_rssi seen by the message layer  *)
(*   gh      numbering of the committed edge buffers and of deliveries     *)
(*   ob      the last run of the edge ISR: the interval it handed to       *)
(*           rx_edge and the elapsed time it was computed from             *)
(*   lp      the loop-back harness and the line trace (SpecLoop)           *)
(*   jt      the bench of the bit decoder: a byte, its edge trace and the  *)
(*           byte decoded from it (SpecJitter)                             *)
(***************************************************************************)
VARIABLES rx, tx, hw, pc, dec, ml, up, gh, ob, lp, jt

vars == <<rx, tx, hw, pc, dec, ml, up, gh, ob, lp, jt>>

(* bounds of the model *)
MaxCommits == 1
MaxInByte == 1
MaxNest == 2
MaxDlv == 3

(* sample-tick values of the RX clock the environment presents at an edge *)
Ticks == {0, 130}

(* message bodies the message layer hands out *)
RECURSIVE SeqsUpTo(_, _)
SeqsUpTo(S, n) ==
  IF n = 0 THEN {<<>>}
  ELSE LET P == SeqsUpTo(S, n - 1)
       IN P \cup {Append(q, x) : q \in {q1 \in P : Len(q1) = n - 1}, x \in S}

(* in the system model the message layer hands out this body and handle   *)
WorkBodies == {<<END_BYTE>>}

MsgHandles == {1}

Sat(n, m) == IF n < m THEN n + 1 ELSE m

HwZero ==
  [shift |-> 1, eimsk |-> FALSE, pcif |-> FALSE, pcie |-> FALSE,
   timsk0 |-> FALSE, radio |-> "idle", gdo0 |-> 0, timsk1 |-> 0]

(* out: messages returned by msg_tx_get and not yet given to msg_tx_done;  *)
(* gotMsg: the last handle returned; dones, doneOut, doneState, doneMsg:   *)
(* whether msg_tx_done was called, and out, tx.state, tx.msg at its last   *)
(* call                                                                    *)
MlZero ==
  [body |-> <<>>, out |-> 0, gotMsg |-> 0, dones |-> 0, doneOut |-> 0,
   doneState |-> TX_OFF, doneMsg |-> 0]

msg_tx_get(m, h, b) == [m EXCEPT !.out = Sat(m.out, 2), !.gotMsg = h, !.body = b]

msg_tx_done(m, t) ==
  [m EXCEPT !.dones = 1, !.doneOut = m.out, !.doneState = t.state,
            !.doneMsg = t.msg, !.out = IF m.out > 0 THEN m.out - 1 ELSE 0,
            !.body = <<>>]


(* the message layer as the sink of the receive path: open: MSG_START     *)
(* seen and not yet closed by MSG_END; rssi: msg_rx_rssi calls since the   *)
(* last MSG_START; ends, endOpen, endRssi: whether MSG_END was passed, and *)
(* open and rssi at the last MSG_END; log: everything passed in, in order, *)
(* kept while on is set                                                    *)
UpZero ==
  [open |-> 0, rssi |-> 0, ends |-> 0, endOpen |-> 0, endRssi |-> 0,
   on |-> FALSE, log |-> <<>>]

(* tag[i]: the number (rx.nByte) of the commit that filled Edges[i];       *)
(* lastTag: the commit rx.lastByte was decoded from; nDlv: data bytes      *)
(* delivered since rx_reset; dlv: the commit the last one came from and    *)
(* dlvByte its value; abort: the last commit made by rx_abort for too many *)
(* edges (sw_uart.c)                                                       *)
GhZero ==
  [tag |-> <<0, 0>>, lastTag |-> 0, nDlv |-> 0, dlv |-> 0, dlvByte |-> 0, abort |-> 0]

ObZero == [edge |-> FALSE, interval |-> 0, elapsed |-> 0]

LpZero ==
  [phase |-> "off", tx |-> TxZero, rest |-> <<>>, B |-> <<>>, line |-> <<>>,
   level |-> 1, t |-> 0, timsk0 |-> FALSE, calls |-> 0]

JtZero ==
  [phase |-> "off", byte |-> 0, msb |-> TRUE, k |-> 0, edges |-> <<>>, out |-> 0,
   nbits |-> 0, uout |-> 0]

(* an entry of the log: a call of the message layer and its byte *)
Item(call, byte) == [call |-> call, byte |-> byte]

UpLog(u, item) == IF u.on THEN [u EXCEPT !.log = Append(u.log, item)] ELSE u

(* msg_rx_byte(MSG_START), msg_rx_rssi, msg_rx_byte(MSG_END) as the message *)
(* layer sees them                                                          *)
UpStart(u) == UpLog([u EXCEPT !.open = Sat(u.open, 2), !.rssi = 0], Item("MSG_START", 0))

UpRssi(u) == UpLog([u EXCEPT !.rssi = Sat(u.rssi, 2)], Item("msg_rx_rssi", 0))

UpEnd(u) ==
  UpLog([u EXCEPT !.ends = 1, !.endOpen = u.open, !.endRssi = u.rssi,
                  !.open = 0, !.rssi = 0], Item("MSG_END", 0))

(* msg_rx_byte( byte ) for a decoded byte *)
UpByte(u, byte) == UpLog(u, Item("msg_rx_byte", byte))

(* a frame completion that forgets the signal strength *)
rx_frame_done_no_rssi(u) == UpEnd(u)

(* rx_frame_done: cc_read_rssi, msg_rx_rssi, msg_rx_byte(MSG_END) *)
rx_frame_done(u) == UpEnd(UpRssi(u))

(* the calls a handler made, applied to the hardware and the message layer *)
Has(fx, name) == \E i \in 1..Len(fx) : fx[i] = name

HwAfter(h, fx) ==
  [h EXCEPT !.eimsk = IF Has(fx, "rx_stop") THEN FALSE ELSE h.eimsk,
            !.pcif = IF Has(fx, "SW_INT") THEN TRUE ELSE h.pcif,
            !.timsk0 = IF Has(fx, "tx_stop") THEN FALSE ELSE h.timsk0]

UpAfter(u, fx) == IF Has(fx, "MSG_START") THEN UpStart(u) ELSE u

GhAfter(g, r, fx) ==
  IF Has(fx, "SW_INT") THEN [g EXCEPT !.tag[r.idx + 1] = U8(r.nByte + 1)] ELSE g

rx_start(h) == [h EXCEPT !.eimsk = TRUE, !.pcif = FALSE, !.pcie = TRUE]

rx_stop(h) == [h EXCEPT !.eimsk = FALSE]

tx_start(h) == [h EXCEPT !.gdo0 = 1, !.timsk0 = TRUE]

tx_stop(h) == [h EXCEPT !.timsk0 = FALSE]

Init ==
  /\ rx = rx_reset
  /\ tx = tx_reset
  /\ hw = HwZero
  /\ pc = "L750"
  /\ dec = <<>>
  /\ ml = MlZero
  /\ up = UpZero
  /\ gh = GhZero
  /\ ob = ObZero
  /\ lp = LpZero
  /\ jt = JtZero

(***************************************************************************)
(* Interrupt scheduling.  A pending, enabled pin-change interrupt is taken *)
(* before the foreground or an interrupted handler executes further; the   *)
(* foreground does not run while a decoder invocation is active.           *)
(***************************************************************************)
SwPending == hw.pcif /\ hw.pcie

MainRuns == dec = <<>> /\ ~SwPending

(***************************************************************************)
(* frame_work (frame.c 748-780).  The foreground is cut where an interrupt *)
(* handler can change what it reads next: before the test of rx.state at   *)
(* line 750, before the test at line 754, before rx_stop in                *)
(* frame_rx_disable, and before the test of tx.state at line 770.  tx.msg  *)
(* and tx.state = TX_OFF are changed by the foreground only, and no        *)
(* handler leaves RX_OFF or RX_DONE (the edge interrupt is off in RX_DONE).*)
(***************************************************************************)
RxIsDone(r) == r.state = RX_DONE

RxIsOff(r) == r.state = RX_OFF

TxIsOff_or_done(t) == t.state \in {TX_OFF, TX_DONE}

TxIsOff(t) == t.state = TX_OFF

(* a test that takes any started transmission for a finished one *)
TxIsDone_started(t) == t.state # TX_OFF

TxIsDone(t) == t.state = TX_DONE

(* frame_rx_enable: rx_reset; rx.state = RX_IDLE; rx_start; cc_enter_rx_mode *)
frame_rx_enable_rx == [rx_reset EXCEPT !.state = RX_IDLE]

frame_rx_enable_hw(h) == [rx_start(h) EXCEPT !.radio = "rx"]

(* frame_rx_disable: cc_enter_idle_mode; rx_stop *)
frame_rx_disable(h) == [rx_stop(h) EXCEPT !.radio = "idle"]

(* frame_tx_enable: cc_enter_tx_mode; tx.state = TX_IDLE; tx.bit = 1; tx_start *)
frame_tx_enable_tx(t) == [t EXCEPT !.state = TX_IDLE, !.bit = 1]

frame_tx_enable_hw(h) == [tx_start(h) EXCEPT !.radio = "tx"]

(* frame_tx_disable: tx_stop; cc_enter_idle_mode; tx_frame_done; tx_reset *)
frame_tx_disable_hw(h) == [tx_stop(h) EXCEPT !.radio = "idle"]

(* tx_frame_done: msg_tx_done( &tx.msg ) as the message layer sees it *)
tx_frame_done(m, t) == msg_tx_done(m, t)

(* line 750-753: if( rx.state==RX_DONE ) { rx_frame_done(); frame_rx_enable(); } *)
Fw750 ==
  /\ MainRuns /\ pc = "L750"
  /\ IF RxIsDone(rx)
     THEN /\ up' = rx_frame_done(up)
          /\ rx' = frame_rx_enable_rx
          /\ hw' = frame_rx_enable_hw(hw)
          /\ gh' = GhZero
     ELSE UNCHANGED <<up, rx, hw, gh>>
  /\ pc' = "L754"
  /\ UNCHANGED <<tx, dec, ml, ob, lp, jt>>

(* line 754-766: if( rx.state==RX_OFF ) frame_rx_enable(); then             *)
(* if( !tx.msg ) tx.msg = msg_tx_get(), which returns null or a message,    *)
(* else the test of tx.state == TX_OFF                                      *)
Fw754 ==
  /\ MainRuns /\ pc = "L754"
  /\ IF RxIsOff(rx)
     THEN /\ rx' = frame_rx_enable_rx
          /\ hw' = frame_rx_enable_hw(hw)
          /\ gh' = GhZero
     ELSE UNCHANGED <<rx, hw, gh>>
  /\ IF tx.msg = 0
     THEN /\ pc' = "L750"
          /\ \/ UNCHANGED <<tx, ml>>
             \/ \E b \in WorkBodies, h \in MsgHandles :
                  /\ ml' = msg_tx_get(ml, h, b)
                  /\ tx' = [tx EXCEPT !.msg = h]
     ELSE /\ pc' = IF TxIsOff(tx) THEN "L767" ELSE "L770"
          /\ UNCHANGED <<tx, ml>>
  /\ UNCHANGED <<dec, up, ob, lp, jt>>

(* line 767-768: frame_rx_disable(); frame_tx_enable(); *)
Fw767 ==
  /\ MainRuns /\ pc = "L767"
  /\ tx' = frame_tx_enable_tx(tx)
  /\ hw' = frame_tx_enable_hw(frame_rx_disable(hw))
  /\ pc' = "L770"
  /\ UNCHANGED <<rx, dec, ml, up, gh, ob, lp, jt>>

(* line 770-773: if( tx.state == TX_DONE ) { frame_tx_disable(); rx_reset(); } *)
Fw770 ==
  /\ MainRuns /\ pc = "L770"
  /\ IF TxIsDone(tx)
     THEN /\ hw' = frame_tx_disable_hw(hw)
          /\ ml' = tx_frame_done(ml, tx)
          /\ tx' = tx_reset
          /\ rx' = rx_reset
          /\ gh' = GhZero
     ELSE UNCHANGED <<hw, ml, tx, rx, gh>>
  /\ pc' = "L750"
  /\ UNCHANGED <<dec, up, ob, lp, jt>>

(***************************************************************************)
(* The interrupt handlers                                                  *)
(***************************************************************************)
(* the value of TCNT1 after t sample ticks of 2 us *)
ClockOf(t) == IF hw.shift = 1 THEN 2 * t ELSE 4 * t

(* ISR(GDO2_INT_VECT) run with TCNT1 = clock and GDO2 at level pin, within *)
(* the bounds of maxInByte edges in a byte and maxCommits bytes in a frame *)
EdgeEffect(clock, pin, maxInByte, maxCommits, observe) ==
  LET e == GDO2_ISR(rx, clock, pin, hw.shift) IN
  /\ e.rx.nEdges <= maxInByte
  /\ e.rx.nByte <= maxCommits
  /\ Has(e.fx, "SW_INT") => Len(dec) < MaxNest
  /\ rx' = e.rx
  /\ hw' = HwAfter(hw, e.fx)
  /\ up' = UpAfter(up, e.fx)
  /\ gh' = GhAfter(gh, rx, e.fx)
  /\ ob' = IF observe /\ e.edge
           THEN [edge |-> TRUE, interval |-> e.interval,
                 elapsed |-> EdgeElapsed(rx, clock, hw.shift)]
           ELSE ob

(* the edge interrupt, taken when it is enabled and no interrupt of higher *)
(* urgency for the model is pending: the environment supplies the value of *)
(* TCNT1 (one of clocks) and the level of GDO2 (one of pins)               *)
EdgeStep(clocks, pins, maxInByte, maxCommits, observe) ==
  /\ hw.eimsk /\ ~SwPending
  /\ \E clock \in clocks, pin \in pins :
       EdgeEffect(clock, pin, maxInByte, maxCommits, observe)
  /\ UNCHANGED <<tx, pc, dec, ml, lp, jt>>

(* in the system model every interrupt finds the level changed            *)
EdgeIsr ==
  EdgeStep({ClockOf(t) : t \in Ticks}, {1 - rx.lastLevel}, MaxInByte, MaxCommits, FALSE)

(* ISR(TIMER0_COMPA_vect) *)
TxTick ==
  /\ hw.timsk0 /\ ~SwPending
  /\ LET f == tx_frame(tx, ml.body) IN
       /\ tx' = f.tx
       /\ ml' = [ml EXCEPT !.body = f.body]
       /\ hw' = [HwAfter(hw, f.fx) EXCEPT !.gdo0 = IF f.line < 0 THEN hw.gdo0 ELSE f.line]
  /\ UNCHANGED <<rx, pc, dec, up, gh, ob, lp, jt>>

(* ISR(SW_INT_VECT): entry clears the flag, sei(), and the arguments of    *)
(* rx_process_edges are read                                                *)
SwIsrEnter ==
  /\ SwPending /\ Len(dec) < MaxNest
  /\ hw' = [hw EXCEPT !.pcif = FALSE]
  /\ dec' = Append(dec, [at |-> "decode", buf |-> 1 - rx.idx,
                         n |-> rx.NEdges[(1 - rx.idx) + 1],
                         tag |-> gh.tag[(1 - rx.idx) + 1], byte |-> 0])
  /\ UNCHANGED <<rx, tx, pc, ml, up, gh, ob, lp, jt>>

Top == dec[Len(dec)]

(* rx.lastByte = rx_process_edges( ... ) *)
SwIsrDecode ==
  /\ dec # <<>> /\ ~SwPending /\ Top.at = "decode"
  /\ LET b == rx_process_edges(rx.Edges[Top.buf + 1], Top.n) IN
       /\ rx' = [rx EXCEPT !.lastByte = b]
       /\ dec' = [dec EXCEPT ![Len(dec)] = [Top EXCEPT !.at = "deliver", !.byte = b]]
       /\ gh' = [gh EXCEPT !.lastTag = Top.tag]
  /\ UNCHANGED <<tx, hw, pc, ml, up, ob, lp, jt>>

(* msg_rx_byte( rx.lastByte ): rx is not volatile, the argument is the     *)
(* value just computed (kept in a register) or rx.lastByte read again      *)
SwIsrDeliver ==
  /\ dec # <<>> /\ ~SwPending /\ Top.at = "deliver"
  /\ \E a \in {[tag |-> Top.tag, byte |-> Top.byte],
               [tag |-> gh.lastTag, byte |-> rx.lastByte]} :
       /\ gh' = [gh EXCEPT !.nDlv = Sat(gh.nDlv, MaxDlv), !.dlv = a.tag, !.dlvByte = a.byte]
       /\ up' = UpByte(up, a.byte)
  /\ dec' = SubSeq(dec, 1, Len(dec) - 1)
  /\ UNCHANGED <<rx, tx, hw, pc, ml, ob, lp, jt>>

Next ==
  \/ Fw750 \/ Fw754 \/ Fw767 \/ Fw770
  \/ EdgeIsr \/ TxTick \/ SwIsrEnter \/ SwIsrDecode \/ SwIsrDeliver

Spec == Init /\ [][Next]_vars

(***************************************************************************)
(* The system under the scheduling the code relies on: the main loop keeps *)
(* calling frame_work and the bit timer keeps firing while its interrupt   *)
(* is enabled, however often the receive interrupts get in their way       *)
(* (strong fairness); an active or pending decoder interrupt is served     *)
(* (weak fairness).  Nothing is assumed of the edges of GDO2.              *)
(***************************************************************************)
(* rx_process_edges returns, whatever byte it returns: its loops run at     *)
(* most nEdges and 255 times                                                *)
SwIsrDecodeReturns ==
  /\ dec # <<>> /\ ~SwPending /\ Top.at = "decode"
  /\ \E b \in 0..255 :
       /\ rx' = [rx EXCEPT !.lastByte = b]
       /\ dec' = [dec EXCEPT ![Len(dec)] = [Top EXCEPT !.at = "deliver", !.byte = b]]
  /\ gh' = [gh EXCEPT !.lastTag = Top.tag]
  /\ UNCHANGED <<tx, hw, pc, ml, up, ob, lp, jt>>

Fairness ==
  /\ SF_vars(Fw750) /\ SF_vars(Fw754) /\ SF_vars(Fw767) /\ SF_vars(Fw770)
  /\ SF_vars(TxTick)
  /\ WF_vars(SwIsrEnter) /\ WF_vars(SwIsrDecodeReturns) /\ WF_vars(SwIsrDeliver)

(* the line carries edges until the first message has been sent and is     *)
(* quiet afterwards                                                        *)
LiveEdgeIsr == EdgeIsr /\ ml.dones = 0

LiveNext ==
  \/ Fw750 \/ Fw754 \/ Fw767 \/ Fw770
  \/ LiveEdgeIsr \/ TxTick \/ SwIsrEnter \/ SwIsrDecode \/ SwIsrDeliver

SpecLive == Init /\ [][LiveNext]_vars /\ Fairness

(***************************************************************************)
(* The receive path of frame.c on its own: no message is ever handed to    *)
(* frame_work for sending, the edges of GDO2 arrive at any of RxTicks with *)
(* either level, on a 16 MHz or an 8 MHz build                             *)
(***************************************************************************)
RxMaxInByte == 2
RxMaxCommits == 2
RxTicks == {0, 130, 386}

RxInit ==
  /\ rx = rx_reset
  /\ tx = tx_reset
  /\ hw \in {[HwZero EXCEPT !.shift = s] : s \in {1, 2}}
  /\ pc = "L750"
  /\ dec = <<>>
  /\ ml = MlZero
  /\ up = UpZero
  /\ gh = GhZero
  /\ ob = ObZero
  /\ lp = LpZero
  /\ jt = JtZero

(* frame_work line 754-765 when msg_tx_get returns no message *)
RxFw754 == Fw754 /\ tx' = tx

RxEdgeIsr ==
  EdgeStep({ClockOf(t) : t \in RxTicks}, {0, 1}, RxMaxInByte, RxMaxCommits, TRUE)

RxNext ==
  \/ Fw750 \/ RxFw754
  \/ RxEdgeIsr \/ SwIsrEnter \/ SwIsrDecode \/ SwIsrDeliver

SpecRx == RxInit /\ [][RxNext]_vars

(***************************************************************************)
(* The receive path under a burst of edges: every edge follows the last    *)
(* one after one of BurstDeltas sample ticks, until BurstMaxClock sample   *)
(* ticks have passed since frame_rx_enable                                 *)
(***************************************************************************)
BurstMaxInByte == 25
BurstMaxCommits == 1
BurstMaxClock == 500
BurstDeltas == {4, 130}

BurstEdgeIsr ==
  EdgeStep({rx.time + ClockOf(d) : d \in {x \in BurstDeltas : rx.time + ClockOf(x) <= ClockOf(BurstMaxClock)}},
           {1 - rx.lastLevel}, BurstMaxInByte, BurstMaxCommits, TRUE)

BurstNext ==
  \/ Fw750 \/ RxFw754
  \/ BurstEdgeIsr \/ SwIsrEnter \/ SwIsrDecode \/ SwIsrDeliver

SpecBurst == RxInit /\ [][BurstNext]_vars

(***************************************************************************)
(* The receive path under long marks and spaces: every edge follows the    *)
(* last one after one of StopDeltas sample ticks (5, 9, 10, 14 or 15 bit   *)
(* widths), until StopMaxClock sample ticks have passed since              *)
(* frame_rx_enable                                                         *)
(***************************************************************************)
StopMaxInByte == 2
StopMaxCommits == 2
StopMaxClock == 800
StopDeltas == {5 * ONE_BIT, 9 * ONE_BIT, 10 * ONE_BIT, 14 * ONE_BIT, 15 * ONE_BIT}

StopEdgeIsr ==
  EdgeStep({rx.time + ClockOf(d) : d \in {x \in StopDeltas : rx.time + ClockOf(x) <= ClockOf(StopMaxClock)}},
           {1 - rx.lastLevel}, StopMaxInByte, StopMaxCommits, TRUE)

StopNext ==
  \/ Fw750 \/ RxFw754
  \/ StopEdgeIsr \/ SwIsrEnter \/ SwIsrDecode \/ SwIsrDeliver

SpecStop == RxInit /\ [][StopNext]_vars

(***************************************************************************)
(* The external interface called in any order: between two calls of        *)
(* frame_work the foreground calls frame_rx_enable, frame_rx_disable,      *)
(* frame_tx_enable or frame_tx_disable; the bit timer interrupt runs       *)
(* tx_frame while it is enabled.                                           *)
(***************************************************************************)
ApiCall ==
  /\ MainRuns /\ pc = "L750"
  /\ \/ /\ rx' = frame_rx_enable_rx
        /\ hw' = frame_rx_enable_hw(hw)
        /\ gh' = GhZero
        /\ UNCHANGED <<tx, ml>>
     \/ /\ hw' = frame_rx_disable(hw)
        /\ UNCHANGED <<rx, tx, ml, gh>>
     \/ /\ tx' = frame_tx_enable_tx(tx)
        /\ hw' = frame_tx_enable_hw(hw)
        /\ UNCHANGED <<rx, ml, gh>>
     \/ /\ hw' = frame_tx_disable_hw(hw)
        /\ ml' = tx_frame_done(ml, tx)
        /\ tx' = tx_reset
        /\ UNCHANGED <<rx, gh>>
  /\ UNCHANGED <<pc, dec, up, ob, lp, jt>>

ApiNext == Fw750 \/ Fw754 \/ Fw767 \/ Fw770 \/ ApiCall \/ TxTick

SpecApi == Init /\ [][ApiNext]_vars

(***************************************************************************)
(* The preamble counter on its own: with the receiver enabled, rx_preamble *)
(* is called, as rx_high, rx_low and rx_sync1 call it with the interval of *)
(* an edge, with an interval of up to two bit widths or the longest one;   *)
(* ob keeps the interval and the counter before the call                   *)
(***************************************************************************)
PreCall ==
  /\ hw.eimsk /\ ~SwPending
  /\ \E interval \in (0..(2 * ONE_BIT)) \cup {255} :
       /\ rx' = rx_preamble(rx, interval)
       /\ ob' = [edge |-> TRUE, interval |-> interval, pre |-> rx.preamble]
  /\ UNCHANGED <<tx, hw, pc, dec, ml, up, gh, lp, jt>>

PreNext == Fw750 \/ RxFw754 \/ PreCall

SpecPre == RxInit /\ [][PreNext]_vars

(***************************************************************************)
(* Loop-back: a sender runs the TX state machine of frame.c over a body B, *)
(* and a receiver (rx, hw, pc, dec, up) sees the sender's line on GDO2,    *)
(* one TX tick being ONE_BIT sample ticks of the receiver's clock.         *)
(*   lp.tx, lp.rest   the sender's tx object and what msg_tx_byte has      *)
(*                    still to return                                       *)
(*   lp.timsk0        the sender's bit timer interrupt is enabled          *)
(*   lp.level         the level of the line; lp.line the levels driven,    *)
(*                    one per tick; lp.t the number of ticks so far        *)
(*   lp.calls         the calls of msg_tx_byte so far                      *)
(***************************************************************************)
(* the bodies sent: up to LoopMaxData bytes of LoopBytes and then the      *)
(* end-of-frame byte                                                       *)
LoopMaxData == 1
LoopBytes == {24, 127}
LoopBodies == {Append(b, END_BYTE) : b \in SeqsUpTo(LoopBytes, LoopMaxData)}

LoopInit ==
  /\ rx = rx_reset
  /\ tx = tx_reset
  /\ hw = HwZero
  /\ pc = "L750"
  /\ dec = <<>>
  /\ ml = MlZero
  /\ up = [UpZero EXCEPT !.on = TRUE]
  /\ gh = GhZero
  /\ ob = ObZero
  /\ lp = LpZero
  /\ jt = JtZero

(* the sender's frame_work finds the message B: msg_tx_get, frame_tx_enable; *)
(* the receiver is listening                                               *)
LoopStart ==
  /\ lp.phase = "off" /\ hw.eimsk /\ rx.state = RX_IDLE /\ pc = "L750"
  /\ \E b \in LoopBodies :
       lp' = [lp EXCEPT !.phase = "tx", !.B = b, !.rest = b,
                        !.tx = frame_tx_enable_tx([tx_reset EXCEPT !.msg = 1]),
                        !.timsk0 = tx_start(HwZero).timsk0,
                        !.level = tx_start(HwZero).gdo0]
  /\ UNCHANGED <<rx, tx, hw, pc, dec, ml, up, gh, ob, jt>>

(* one tick of the sender's bit timer: tx_frame drives the line; a change  *)
(* of level interrupts the receiver if its edge interrupt is enabled       *)
LoopTick ==
  /\ lp.phase = "tx" /\ lp.timsk0 /\ ~SwPending
  /\ LET f == tx_frame(lp.tx, lp.rest)
         level == IF f.line < 0 THEN lp.level ELSE f.line
         stop == Has(f.fx, "tx_stop")
     IN /\ lp' = [lp EXCEPT !.tx = f.tx, !.rest = f.body, !.level = level,
                            !.line = Append(lp.line, f.line), !.t = lp.t + 1,
                            !.calls = IF Has(f.fx, "msg_tx_byte")
                                      THEN lp.calls + 1 ELSE lp.calls,
                            !.timsk0 = IF stop THEN tx_stop(HwZero).timsk0 ELSE lp.timsk0,
                            !.phase = IF stop THEN "done" ELSE lp.phase]
        /\ IF level # lp.level /\ hw.eimsk
           THEN EdgeEffect(U16(ClockOf(ONE_BIT * (lp.t + 1))), level,
                           MAX_EDGE, Len(lp.B) + TX_TRAIN_LEN, FALSE)
           ELSE UNCHANGED <<rx, hw, up, gh, ob>>
  /\ UNCHANGED <<tx, pc, dec, ml, jt>>

LoopNext ==
  \/ Fw750 \/ RxFw754
  \/ LoopStart \/ LoopTick
  \/ SwIsrEnter \/ SwIsrDecode \/ SwIsrDeliver

SpecLoop == LoopInit /\ [][LoopNext]_vars

(***************************************************************************)
(* A frame without training: the sender of the loop-back is cut off when   *)
(* the stop bit of the last byte of the body has been driven, and the line *)
(* stays at mark.  For the body AC the line carries AA AA AA AA FF 00 AC.  *)
(***************************************************************************)
TraceTick == lp.tx.state # TX_TRAIN /\ LoopTick

TraceNext ==
  \/ Fw750 \/ RxFw754
  \/ LoopStart \/ TraceTick
  \/ SwIsrEnter \/ SwIsrDecode \/ SwIsrDeliver

SpecTrace == LoopInit /\ [][TraceNext]_vars

(***************************************************************************)
(* The receive path of sw_uart.c: uart_rx_enable in the foreground, the    *)
(* edge interrupt under a burst of edges, the decoder interrupt.  The      *)
(* value of FRM_LOST_SYNC is set in frame.h, which is not among the        *)
(* sources: it is one of LostSyncCodes, kept in ob.code.                   *)
(***************************************************************************)
UartMaxCommits == 2
UartMaxClock == 400
UartDeltas == {4, 130}
UartMaxWraps == 2
UartMaxTicks == 3
LostSyncCodes == {0, 255}

UartTxZero == [state |-> TX_OFF, byte |-> 0, bitNo |-> 0]

UartInit ==
  /\ rx = uart_rx_reset
  /\ tx = UartTxZero
  /\ hw \in {uart_rx_init([HwZero EXCEPT !.shift = s]) : s \in {1, 2}}
  /\ pc = "main"
  /\ dec = <<>>
  /\ ml = MlZero
  /\ up = UpZero
  /\ gh = GhZero
  /\ ob \in {[edge |-> FALSE, interval |-> 0, elapsed |-> 0, code |-> c, wraps |-> 0] : c \in LostSyncCodes}
  /\ lp = LpZero
  /\ jt = JtZero

(* rx_stop of sw_uart.c, as it leaves the rx object; one that leaves the    *)
(* state alone comes first                                                 *)
uart_rx_stop_keep(r) == r

uart_rx_stop(r) == [r EXCEPT !.state = RX_OFF]

(* uart_rx_enable up to SREG = sreg: tx_stop; rx_reset; rx.state = RX_IDLE; *)
(* the call of rx_start is UartStart                                        *)
UartRxEnable ==
  /\ MainRuns /\ pc = "main"
  /\ tx' = [tx EXCEPT !.state = TX_OFF]
  /\ rx' = [uart_rx_reset EXCEPT !.state = RX_IDLE]
  /\ hw' = [hw EXCEPT !.timsk0 = FALSE, !.gdo0 = 0]
  /\ gh' = GhZero
  /\ ob' = [ob EXCEPT !.wraps = 0]
  /\ pc' = "rx_start"
  /\ UNCHANGED <<dec, ml, up, lp, jt>>

(* uart_tx_enable up to SREG = sreg: rx_stop; tx_reset; tx.state = TX_IDLE; *)
(* the call of tx_start is UartStart                                        *)
UartTxEnable ==
  /\ MainRuns /\ pc = "main"
  /\ rx' = uart_rx_stop(rx)
  /\ tx' = [UartTxZero EXCEPT !.state = TX_IDLE]
  /\ hw' = [hw EXCEPT !.eimsk = FALSE]
  /\ pc' = "tx_start"
  /\ UNCHANGED <<dec, ml, up, gh, ob, lp, jt>>

(* the last statement of uart_rx_enable (rx_start) and of uart_tx_enable   *)
(* (tx_start: TIMSK0 |= 1<<OCIE0A, GDO0 at mark)                           *)
UartStart ==
  /\ MainRuns
  /\ \/ pc = "rx_start" /\ hw' = rx_start(hw)
     \/ pc = "tx_start" /\ hw' = [hw EXCEPT !.timsk0 = TRUE, !.gdo0 = 1]
  /\ pc' = "main"
  /\ UNCHANGED <<rx, tx, dec, ml, up, gh, ob, lp, jt>>

(* uart_disable: rx_stop; tx_stop *)
UartDisable ==
  /\ MainRuns /\ pc = "main"
  /\ rx' = uart_rx_stop(rx)
  /\ tx' = [tx EXCEPT !.state = TX_OFF]
  /\ hw' = [hw EXCEPT !.eimsk = FALSE, !.timsk0 = FALSE, !.gdo0 = 0]
  /\ UNCHANGED <<pc, dec, ml, up, gh, ob, lp, jt>>

(* ISR(TIMER0_COMPA_vect) of sw_uart.c: the start bit, the bits of tx.byte *)
(* from the lowest, the stop bit; frame_tx_byte returns any of two bytes;  *)
(* the first UartMaxTicks ticks after uart_tx_enable are followed          *)
UartTxTick ==
  /\ hw.timsk0 /\ ~SwPending /\ tx.bitNo < UartMaxTicks
  /\ LET bit == IF tx.bitNo = 0 THEN 0
                ELSE IF tx.bitNo < 9 THEN (tx.byte \div (2 ^ (tx.bitNo - 1))) % 2
                ELSE 1
     IN /\ hw' = [hw EXCEPT !.gdo0 = bit]
        /\ \E b \in {0, 255} :
             tx' = [tx EXCEPT !.byte = IF tx.bitNo = 0 THEN b ELSE tx.byte,
                              !.bitNo = (tx.bitNo + 1) % 10]
  /\ UNCHANGED <<rx, pc, dec, ml, up, gh, ob, lp, jt>>

(* ISR(GDO2_INT_VECT) of sw_uart.c, an edge one of UartDeltas sample ticks *)
(* after the last one; ob.wraps counts the wraps of TCNT1 since the last   *)
(* edge, and after UartMaxWraps of them the line stays quiet               *)
UartEdgeIsr ==
  /\ hw.eimsk /\ ~SwPending /\ ob.wraps < UartMaxWraps
  /\ \E d \in UartDeltas :
       LET clock == rx.time + ClockOf(d)
           e == uart_GDO2_ISR(rx, clock, 1 - rx.lastLevel, hw.shift, ob.code)
       IN /\ clock <= ClockOf(UartMaxClock)
          /\ e.rx.nByte <= UartMaxCommits
          /\ Has(e.fx, "SW_INT") => Len(dec) < MaxNest
          /\ rx' = e.rx
          /\ hw' = HwAfter(hw, e.fx)
          /\ gh' = IF Has(e.fx, "too many edges")
                   THEN [GhAfter(gh, rx, e.fx) EXCEPT !.abort = e.rx.nByte]
                   ELSE GhAfter(gh, rx, e.fx)
          /\ ob' = [ob EXCEPT !.edge = TRUE, !.interval = e.interval,
                              !.elapsed = Shr(U16(clock - rx.time0), hw.shift),
                              !.wraps = 0]
  /\ UNCHANGED <<tx, pc, dec, ml, up, lp, jt>>

(* the timer 1 overflow interrupt is enabled when bit TOIE1 of TIMSK1 is set *)
OvfEnabled == (hw.timsk1 \div (2 ^ TOIE1)) % 2 = 1

(* TCNT1 wraps with the receiver running; ISR(TIMER1_OVF_vect) is run only *)
(* when the overflow interrupt is enabled in TIMSK1                        *)
UartTimerOvf ==
  /\ rx.state # RX_OFF /\ ~SwPending /\ ob.wraps < UartMaxWraps
  /\ LET e == IF OvfEnabled
              THEN uart_TIMER1_OVF_ISR(rx, hw.shift, ob.code)
              ELSE [rx |-> rx, fx |-> <<>>, edge |-> FALSE, interval |-> 0]
     IN /\ e.rx.nByte <= UartMaxCommits
        /\ Has(e.fx, "SW_INT") => Len(dec) < MaxNest
        /\ rx' = e.rx
        /\ hw' = HwAfter(hw, e.fx)
        /\ gh' = GhAfter(gh, rx, e.fx)
        /\ ob' = [ob EXCEPT !.wraps = ob.wraps + 1,
                            !.edge = IF e.edge THEN TRUE ELSE ob.edge,
                            !.interval = IF e.edge THEN e.interval ELSE ob.interval]
  /\ UNCHANGED <<tx, pc, dec, ml, up, lp, jt>>

(* ISR(SW_INT_VECT) of sw_uart.c: rx.lastByte = rx_process_edges( ... ) *)
UartSwIsrDecode ==
  /\ dec # <<>> /\ ~SwPending /\ Top.at = "decode"
  /\ LET b == uart_rx_process_edges(rx.Edges[Top.buf + 1], Top.n) IN
       /\ rx' = [rx EXCEPT !.lastByte = b]
       /\ dec' = [dec EXCEPT ![Len(dec)] = [Top EXCEPT !.at = "deliver", !.byte = b]]
       /\ gh' = [gh EXCEPT !.lastTag = Top.tag]
  /\ UNCHANGED <<tx, hw, pc, ml, up, ob, lp, jt>>

UartNext ==
  \/ UartRxEnable \/ UartTxEnable \/ UartStart \/ UartDisable
  \/ UartEdgeIsr \/ UartTimerOvf \/ UartTxTick
  \/ SwIsrEnter \/ UartSwIsrDecode \/ SwIsrDeliver

SpecUart == UartInit /\ [][UartNext]_vars

(***************************************************************************)
(* The bit decoder on its own.  A byte goes over the line as a low start   *)
(* bit, its 8 bits (most significant first for frame.c, least significant  *)
(* first for sw_uart.c) and a high stop bit, ONE_BIT sample ticks each,    *)
(* and the next start bit follows.  The capture path stores the time of    *)
(* every edge since the start of the byte.  Every byte value is sent with  *)
(* its edges at the bit boundaries; for the bytes of JitBytes each edge is *)
(* also displaced by one of Jitter sample ticks.                           *)
(*   jt.k      the bit boundaries dealt with so far (1..10)                *)
(*   jt.edges  the intervals stored, as rx_frame / rx_synch store them     *)
(*   jt.out    the byte returned, jt.nbits the bits shifted into it        *)
(* The decoders are also run over arbitrary buffers: up to BufMaxLen        *)
(* intervals, each one of BufVals, in any order (an interval can be        *)
(* smaller than an earlier one, as the uint8_t the capture path stores     *)
(* is).  jt.out is then the byte frame.c returns, jt.uout the one          *)
(* sw_uart.c returns.                                                      *)
(***************************************************************************)
BufMaxLen == 4
BufVals == {0, 4, ONE_BIT, 100, NINE_BITS, TEN_BITS, 255}
JitBytes == {0, 64, 172, 255}
Jitter == {-3, 0, 3}

(* the level of bit cell c of the byte: cell 0 the start bit, cells 1..8   *)
(* the data bits in the order sent, cell 9 the stop bit, cell 10 the next  *)
(* start bit                                                               *)
CellLevel(byte, msb, c) ==
  IF c = 0 \/ c = 10 THEN 0
  ELSE IF c = 9 THEN 1
  ELSE IF msb THEN (byte \div (2 ^ (8 - c))) % 2
  ELSE (byte \div (2 ^ (c - 1))) % 2

JitInit ==
  /\ rx = rx_reset
  /\ tx = tx_reset
  /\ hw = HwZero
  /\ pc = "L750"
  /\ dec = <<>>
  /\ ml = MlZero
  /\ up = UpZero
  /\ gh = GhZero
  /\ ob = ObZero
  /\ lp = LpZero
  /\ jt \in {[JtZero EXCEPT !.phase = "edges", !.byte = b, !.msb = m] :
               b \in 0..255, m \in BOOLEAN}
            \cup {[JtZero EXCEPT !.phase = "buffer"]}

(* the line passes the boundary between bit cells k and k+1: an edge, if   *)
(* the level changes, is stored with its time since the start of the byte  *)
JitEdge ==
  /\ jt.phase = "edges" /\ jt.k < 10
  /\ LET k == jt.k + 1 IN
     IF CellLevel(jt.byte, jt.msb, k - 1) # CellLevel(jt.byte, jt.msb, k)
     THEN \E j \in IF jt.byte \in JitBytes THEN Jitter ELSE {0} :
            jt' = [jt EXCEPT !.k = k, !.edges = Append(jt.edges, ONE_BIT * k + j)]
     ELSE jt' = [jt EXCEPT !.k = k]
  /\ UNCHANGED <<rx, tx, hw, pc, dec, ml, up, gh, ob, lp>>

(* the decoder ISR: rx_process_edges over the stored intervals *)
JitDecode ==
  /\ jt.phase = "edges" /\ jt.k = 10
  /\ jt' = [jt EXCEPT !.phase = "decoded",
                      !.out = IF jt.msb
                              THEN rx_process_edges(jt.edges, Len(jt.edges))
                              ELSE uart_rx_process_edges(jt.edges, Len(jt.edges)),
                      !.nbits = ProcessEdges(DecodeInit, jt.edges, 1, Len(jt.edges),
                                             0, jt.msb).nbits]
  /\ UNCHANGED <<rx, tx, hw, pc, dec, ml, up, gh, ob, lp>>

(* the capture path stores one more interval *)
BufEdge ==
  /\ jt.phase = "buffer" /\ Len(jt.edges) < BufMaxLen
  /\ \E v \in BufVals : jt' = [jt EXCEPT !.edges = Append(jt.edges, v)]
  /\ UNCHANGED <<rx, tx, hw, pc, dec, ml, up, gh, ob, lp>>

(* the decoder ISR of each file over the buffer as it stands *)
BufDecode ==
  /\ jt.phase = "buffer"
  /\ jt' = [jt EXCEPT !.phase = "bufdecoded",
                      !.out = rx_process_edges(jt.edges, Len(jt.edges)),
                      !.uout = uart_rx_process_edges(jt.edges, Len(jt.edges)),
                      !.nbits = ProcessEdges(DecodeInit, jt.edges, 1, Len(jt.edges),
                                             0, TRUE).nbits]
  /\ UNCHANGED <<rx, tx, hw, pc, dec, ml, up, gh, ob, lp>>

JitNext == JitEdge \/ JitDecode \/ BufEdge \/ BufDecode

SpecJitter == JitInit /\ [][JitNext]_vars

(***************************************************************************)
(* Claims about the system model (Spec)                                    *)
(***************************************************************************)

(* C1: RX and TX are never armed at the same time: the RX edge interrupt   *)
(* is not enabled and the radio is not in RX mode while tx.state is        *)
(* anything other than TX_OFF.                                             *)
C1_RxTxNeverBothArmed ==
  (hw.eimsk \/ hw.radio = "rx") => tx.state = TX_OFF

(* C2: every MSG_START is followed by a MSG_END before the next MSG_START: *)
(* the message layer never sees a second MSG_START while the frame of the  *)
(* first is still open.                                                    *)
C2_StartClosedBeforeNextStart == up.open <= 1

(* C3: every MSG_END comes after a MSG_START delivered since the previous  *)
(* MSG_END, with exactly one msg_rx_rssi call after that MSG_START; and    *)
(* RX_DONE is entered only with a frame open.                              *)
C3_EndHasStartAndOneRssi ==
  /\ up.ends = 1 => (up.endOpen >= 1 /\ up.endRssi = 1)
  /\ rx.state = RX_DONE => up.open >= 1

C3_Witness == up.ends = 1 /\ up.endOpen = 1 /\ up.endRssi = 1

(* C4: msg_tx_done is called at most once per message returned by          *)
(* msg_tx_get, with that message, and only when tx.state is TX_DONE; until *)
(* then the message stays in tx.msg, and no second message is fetched.     *)
C4_TxDoneOncePerMessage ==
  /\ ml.out <= 1
  /\ ml.out = 1 => tx.msg = ml.gotMsg /\ tx.msg # 0
  /\ ml.out = 0 => tx.msg = 0
  /\ ml.dones = 1 =>
       /\ ml.doneOut = 1
       /\ ml.doneState = TX_DONE
       /\ ml.doneMsg = ml.gotMsg

C4_Witness == ml.dones = 1 /\ ml.out = 0 /\ tx.state = TX_OFF

(* C12: a frame started by frame_tx_enable reaches TX_DONE; frame_work     *)
(* then stops the bit timer, puts the radio in idle, hands the message to  *)
(* msg_tx_done and zeroes the tx object; and with the tx object zero and   *)
(* rx.state RX_OFF a later frame_work re-enables RX.                       *)
C12_TxCompletesAndRxResumes ==
  /\ (tx.state = TX_IDLE) ~> (tx.state = TX_DONE)
  /\ (tx.state = TX_DONE) ~>
       (tx = tx_reset /\ ~hw.timsk0 /\ hw.radio = "idle" /\ ml.dones = 1 /\ ml.out = 0)
  /\ (tx = tx_reset /\ rx.state = RX_OFF) ~> (rx.state # RX_OFF /\ hw.eimsk)

C12_Witness ==
  tx = tx_reset /\ ml.dones = 1 /\ ml.out = 0 /\ rx.state = RX_IDLE /\ hw.radio = "rx"

(* C27: at most one message is in flight; frame_work calls msg_tx_get only  *)
(* with tx.msg null and frame_tx_enable (line 768) only with tx.msg set    *)
(* and tx.state TX_OFF; tx.msg changes only when msg_tx_get sets it from   *)
(* null and when frame_tx_disable (line 771) releases it at TX_DONE.       *)
C27_OneMessageInFlight ==
  /\ [](ml.out <= 1)
  /\ [][/\ ml'.out > ml.out => (pc = "L754" /\ tx.msg = 0)
        /\ (pc = "L767" /\ pc' = "L770") => (tx.msg # 0 /\ tx.state = TX_OFF)
        /\ tx'.msg # tx.msg
             => \/ pc = "L754" /\ tx.msg = 0 /\ tx'.msg = ml'.gotMsg
                \/ pc = "L770" /\ tx.state = TX_DONE /\ tx'.msg = 0
                   /\ ml'.doneMsg = tx.msg]_vars

C27_Witness ==
  tx.state = TX_MSG /\ tx.msg # 0 /\ tx.msg = ml.gotMsg /\ ml.out = 1 /\ pc = "L770"

(* C18: rx and tx are all-zero after frame_init; when frame_work has called *)
(* frame_rx_disable (line 767) every field of rx is zero, and when it has  *)
(* called frame_tx_disable (line 771) every field of tx is zero.           *)
C18_DisabledIsZero ==
  /\ (rx = rx_reset /\ tx = tx_reset)
  /\ [][/\ (pc = "L767" /\ pc' = "L770") => rx' = rx_reset
        /\ (pc = "L770" /\ TxIsDone(tx) /\ pc' = "L750") => tx' = tx_reset]_vars

(***************************************************************************)
(* Claims about the receive path (SpecRx)                                  *)
(***************************************************************************)

(* C5: the number of edges recorded for the byte being received is always  *)
(* between 0 and 24; rx_frame never counts past the edge buffer.           *)
C5_EdgeCountWithinBuffer == rx.nEdges >= 0 /\ rx.nEdges <= MAX_EDGE

(* C9: the interval the edge ISR hands to the receive state machine is the *)
(* elapsed time since the reference edge, in sample ticks, saturated at    *)
(* 255: min(255, (time - time0) >> clockShift).                            *)
C9_IntervalSaturates == ob.edge => ob.interval = Min(255, ob.elapsed)

(* C10: every committed edge buffer is decoded and delivered exactly once  *)
(* and in the order of commit: the k-th byte delivered in a frame is the   *)
(* k-th buffer committed.                                                  *)
C10_DeliveredInCommitOrder == gh.dlv = gh.nDlv

(* C11: the two edge buffers are owned alternately.  rx.idx changes only   *)
(* when rx_byte commits a byte (or the rx object is reset); the capture    *)
(* ISR leaves the buffer that is not Edges[idx] alone; and no step writes  *)
(* into a buffer that an invocation of the decoder ISR has been handed    *)
(* and has not yet finished reading.                                       *)
C11_BuffersOwnedAlternately ==
  [][/\ rx'.idx # rx.idx =>
          (rx'.nByte = U8(rx.nByte + 1) \/ rx' \in {rx_reset, frame_rx_enable_rx})
     /\ rx'.Edges[2 - rx.idx] # rx.Edges[2 - rx.idx] =>
          rx' \in {rx_reset, frame_rx_enable_rx}
     /\ \A i \in 1..Len(dec) :
          dec[i].at = "decode" => rx'.Edges[dec[i].buf + 1] = rx.Edges[dec[i].buf + 1]]_vars

(* C21: MSG_START is passed up only on a falling edge in RX_STOP; RX_SYNC1  *)
(* is entered only from RX_HIGH on a falling edge that ends a high         *)
(* interval of at least 110 ticks, RX_STOP only from RX_SYNC1 on a rising  *)
(* edge that ends a low interval of 110..137 ticks; a rising edge in       *)
(* RX_SYNC1 after any other low interval leads to RX_HIGH and passes       *)
(* nothing up.  The intervals are the times the line spent at the level.   *)
C21_SyncWordDetection ==
  [][/\ up'.open > up.open
          => (pc' = pc /\ rx.state = RX_STOP /\ rx.lastLevel = 1 /\ rx'.level = 0)
     /\ (rx'.state = RX_SYNC1 /\ rx.state # RX_SYNC1)
          => (rx.state = RX_HIGH /\ rx'.level = 0 /\ ob'.elapsed >= 110)
     /\ (rx'.state = RX_STOP /\ rx.state # RX_STOP)
          => (rx.state = RX_SYNC1 /\ rx'.level = 1
              /\ ob'.elapsed >= 110 /\ ob'.elapsed <= 137)
     /\ (/\ pc' = pc /\ rx.state = RX_SYNC1 /\ rx.lastLevel = 0 /\ rx'.level = 1
         /\ ~(ob'.elapsed >= 110 /\ ob'.elapsed <= 137))
          => (rx'.state = RX_HIGH /\ up' = up)]_vars

(***************************************************************************)
(* Claims about the external interface (SpecApi)                           *)
(***************************************************************************)

(* C26: whenever tx.state is TX_DONE the bit timer interrupt is disabled,   *)
(* and no tick of the bit timer takes tx.bit from 0 to 255.                 *)
C26_DoneStopsTimer ==
  /\ [](tx.state = TX_DONE => ~hw.timsk0)
  /\ [][~(tx.bit = 0 /\ tx'.bit = 255)]_vars

(***************************************************************************)
(* Claims about the preamble counter (SpecPre)                             *)
(***************************************************************************)

(* C19: rx.preamble is always within 0..64; a call of rx_preamble with an  *)
(* interval of 9..17 adds one to it unless it is 64 already, where it      *)
(* stays, and a call with any other interval sets it to 0.                 *)
C19_PreambleSaturates ==
  /\ [](rx.preamble >= 0 /\ rx.preamble <= 64)
  /\ [][ob' # ob =>
          rx'.preamble = IF ob'.interval >= 9 /\ ob'.interval <= 17
                         THEN IF rx.preamble = 64 THEN 64 ELSE rx.preamble + 1
                         ELSE 0]_vars

C19_Witness ==
  rx.preamble = 64 /\ ob.pre = 64 /\ ob.interval >= 9 /\ ob.interval <= 17

(***************************************************************************)
(* Claims about long stop bits (SpecStop)                                  *)
(***************************************************************************)

(* C15: in byte gathering, when the stop bit of a byte (a mark that began  *)
(* 9 bit widths after the start of the byte) has lasted 14 bit widths, the *)
(* falling edge that ends it commits the byte and the state becomes        *)
(* RX_FRAME0: the frame goes on.                                           *)
C15_ExtendedStopTolerated ==
  [][(/\ rx.state = RX_FRAME /\ rx.lastLevel = 1 /\ rx'.lastLevel = 0
      /\ Shr(U16(rx.lastTime - rx.time0), hw.shift) = NINE_BITS
      /\ Shr(U16(rx'.time - rx.lastTime), hw.shift) = 14 * ONE_BIT)
     => (rx'.state = RX_FRAME0 /\ rx'.nByte = U8(rx.nByte + 1))]_vars

(* C16: in byte gathering, the falling edge that ends a mark of 15 bit     *)
(* widths ends the frame (rx.state becomes RX_DONE): the mark is never     *)
(* taken for an edge inside a byte.                                        *)
C16_OverlongStopEndsFrame ==
  [][(/\ rx.state = RX_FRAME /\ rx.lastLevel = 1 /\ rx'.lastLevel = 0
      /\ Shr(U16(rx'.time - rx.lastTime), hw.shift) = 15 * ONE_BIT)
     => rx'.state = RX_DONE]_vars

(***************************************************************************)
(* Claims about the loop-back (SpecLoop)                                   *)
(***************************************************************************)
(* the bits of a byte, most significant first *)
BitsOf(byte) == [i \in 1..8 |-> (byte \div (2 ^ (8 - i))) % 2]

(* a byte on the line: a low start bit, the data bits, a high stop bit *)
OnLine(byte) == <<0>> \o BitsOf(byte) \o <<1>>

RECURSIVE LineOf(_)
LineOf(bytes) ==
  IF bytes = <<>> THEN <<>> ELSE OnLine(Head(bytes)) \o LineOf(Tail(bytes))

(* the frame of a body: preamble, sync word, body, training *)
FrameOf(body) == <<170, 170, 170, 170, 255, 0>> \o body \o <<170, 170>>

IsPrefix(a, b) == Len(a) <= Len(b) /\ a = SubSeq(b, 1, Len(a))

(* C6: the levels driven by the ticks of tx_frame are one mark tick and    *)
(* then the bytes AA AA AA AA FF 00 b1..bn AA AA, each as a low start bit, *)
(* its 8 bits most significant first and a high stop bit; every tick up to *)
(* TX_DONE drives the next of these levels and none drives anything else.  *)
C6_LineIsTheFrame ==
  /\ IsPrefix(lp.line, <<1>> \o LineOf(FrameOf(lp.B)))
  /\ lp.tx.state = TX_DONE => lp.line = <<1>> \o LineOf(FrameOf(lp.B))
  /\ (lp.phase = "tx" /\ lp.line = <<1>> \o LineOf(FrameOf(lp.B))) => lp.tx.state = TX_DONE

C6_Witness ==
  /\ lp.tx.state = TX_DONE /\ lp.B = <<24, END_BYTE>>
  /\ lp.line = <<1>> \o LineOf(FrameOf(lp.B))

(* the place of a TX state in the order of a frame *)
TxRank(state) ==
  CASE state = TX_OFF -> 0 [] state = TX_IDLE -> 1 [] state = TX_PREAMBLE -> 2
    [] state = TX_SYNC -> 3 [] state = TX_MSG -> 4 [] state = TX_TRAIN -> 5
    [] state = TX_DONE -> 6

(* C25: a tick of the bit timer changes tx.state only when tx.bit reaches   *)
(* 0, and never backwards in the order TX_IDLE, TX_PREAMBLE, TX_SYNC,       *)
(* TX_MSG, TX_TRAIN, TX_DONE; run with tx.state TX_OFF it leaves tx alone;  *)
(* msg_tx_byte is called only when the preamble and both sync bytes have    *)
(* gone over the line whole, and not again once it has returned 0.          *)
C25_TxPhaseOrder ==
  [][/\ (lp.phase = "tx" /\ lp'.tx.state # lp.tx.state) => lp.tx.bit = 1
     /\ lp.phase = "tx" => TxRank(lp'.tx.state) >= TxRank(lp.tx.state)
     /\ tx_frame([lp.tx EXCEPT !.state = TX_OFF], lp.rest).tx
          = [lp.tx EXCEPT !.state = TX_OFF]
     /\ lp'.calls > lp.calls
          => IsPrefix(<<1>> \o LineOf(<<170, 170, 170, 170, 255, 0>>), lp'.line)
     /\ lp'.calls <= Len(lp'.B) + 1]_vars

C25_Witness ==
  lp.tx.state = TX_DONE /\ Len(lp.B) = 2 /\ lp.calls = 3 /\ lp.rest = <<>>

(* what the message layer is to see for a body *)
SinkOf(body) ==
  <<Item("MSG_START", 0)>> \o [i \in 1..Len(body) |-> Item("msg_rx_byte", body[i])]
    \o <<Item("msg_rx_rssi", 0), Item("MSG_END", 0)>>

(* the receiver has nothing left to do: no decoder runs or is pending and  *)
(* frame_work has dealt with a finished frame                              *)
LoopQuiet == dec = <<>> /\ ~SwPending /\ rx.state # RX_DONE /\ pc = "L750"

(* C7: round trip: once the sender is done and the receiver has nothing    *)
(* left to do, the message layer has been passed exactly MSG_START, the    *)
(* bytes of B in order, the signal strength and MSG_END; at no time has it *)
(* been passed anything else (no byte of the preamble, the sync word or    *)
(* the training).                                                          *)
C7_RoundTrip ==
  /\ IsPrefix(up.log, SinkOf(lp.B))
  /\ (lp.phase = "done" /\ LoopQuiet) => up.log = SinkOf(lp.B)

(* C14: the line has carried AA AA AA AA FF 00 AC and is back at mark for  *)
(* good; once the receiver has nothing left to do the message layer has    *)
(* been passed exactly MSG_START, AC, the signal strength and MSG_END.     *)
C14_SentinelThenEnd ==
  (lp.B = <<END_BYTE>> /\ lp.tx.state = TX_TRAIN /\ LoopQuiet) => up.log = SinkOf(lp.B)

(* C20: on every edge the interrupt handler leaves rx.time0 unchanged when *)
(* the state after the edge is RX_FRAME (rx_edge returned synch = 0), and  *)
(* sets it to the time of the edge otherwise, also on the edge that enters *)
(* RX_FRAME0.                                                              *)
C20_ClockRecovery ==
  [][(pc' = pc /\ rx'.level # rx.lastLevel)
     => rx'.time0 = IF rx'.state = RX_FRAME THEN rx.time0 ELSE rx'.time]_vars

C20_Witness ==
  rx.state = RX_FRAME /\ rx.nByte >= 1 /\ rx.nEdges >= 1 /\ rx.time0 # rx.lastTime

(***************************************************************************)
(* Claims about the bit decoder (SpecJitter)                               *)
(***************************************************************************)

(* C13: with every edge of the ideal trace of a byte displaced by up to 3  *)
(* sample ticks either way, rx_process_edges returns the byte sent.        *)
C13_JitterTolerated == jt.phase = "decoded" => jt.out = jt.byte

(* C22: a byte sent at exactly ONE_BIT = 13 ticks per bit, its edges stored *)
(* as times since the start bit up to the 130 of the next start bit, is    *)
(* decoded to itself, by rx_process_edges of frame.c when sent most        *)
(* significant bit first and by that of sw_uart.c when sent least          *)
(* significant bit first, and exactly 8 bits are shifted in.               *)
C22_IdealDecode ==
  (jt.phase = "decoded" /\ \A i \in 1..Len(jt.edges) : jt.edges[i] % 13 = 0)
    => (jt.out = jt.byte /\ jt.nbits = 8)

C22_Witness ==
  /\ jt.phase = "decoded" /\ jt.byte = 83 /\ ~jt.msb
  /\ jt.edges = <<13, 39, 65, 78, 91, 104, 117, 130>>
  /\ jt.out = 83 /\ jt.nbits = 8

(* the byte with its 8 bits in the opposite order *)
Rev8(b) ==
  LET bitAt(i) == (b \div (2 ^ i)) % 2
  IN bitAt(0) * 128 + bitAt(1) * 64 + bitAt(2) * 32 + bitAt(3) * 16
     + bitAt(4) * 8 + bitAt(5) * 4 + bitAt(6) * 2 + bitAt(7)

(* C23: over every edge buffer the byte rx_process_edges of sw_uart.c      *)
(* returns is the bit-reversal of the byte rx_process_edges of frame.c     *)
(* returns, and the end-of-frame bytes 0xAC and 0x35 are bit-reversals of  *)
(* each other.                                                             *)
C23_DecodersMirror ==
  /\ jt.phase = "bufdecoded" => jt.uout = Rev8(jt.out)
  /\ SW_END_BYTE = Rev8(END_BYTE) /\ END_BYTE = 172 /\ SW_END_BYTE = 53

C23_Witness ==
  /\ jt.phase = "bufdecoded" /\ jt.edges = <<100, 130>>
  /\ jt.out = 1 /\ jt.uout = 128

(* C24: over every edge buffer, also one with an interval smaller than an  *)
(* earlier one, rx_process_edges shifts at most 8 bits into the byte it    *)
(* returns.                                                                *)
C24_AtMostEightBits == jt.phase = "bufdecoded" => jt.nbits <= 8

(***************************************************************************)
(* Claims about the receive path of sw_uart.c (SpecUart)                   *)
(***************************************************************************)

(* C8: when a 25th interval arrives for a byte (nEdges >= MAX_EDGE)        *)
(* gathering is aborted, the receiver is back in the frame-detect states,  *)
(* and the byte passed upward for the aborted buffer is FRM_LOST_SYNC.     *)
C8_LostSyncDelivered ==
  /\ (gh.abort # 0 /\ gh.abort = rx.nByte) => rx.state \notin {RX_SYNCH0, RX_SYNCH}
  /\ (gh.abort # 0 /\ gh.nDlv > 0 /\ gh.dlv = gh.abort) => gh.dlvByte = ob.code

(* C28: the edge interrupt and the bit timer interrupt of sw_uart.c are     *)
(* never both enabled, and rx.state # RX_OFF never holds together with     *)
(* tx.state # TX_OFF.                                                      *)
C28_RxTxExclusive ==
  /\ ~(hw.eimsk /\ hw.timsk0)
  /\ ~(rx.state # RX_OFF /\ tx.state # TX_OFF)

C28_Witness ==
  /\ tx.state = TX_IDLE /\ hw.timsk0 /\ tx.bitNo > 0
  /\ rx.state = RX_OFF /\ rx.nEdges > 0 /\ ~hw.eimsk

(* C17: once TCNT1 has wrapped twice with no edge in between, the state    *)
(* handler has been called with interval 255, rx.overflow is back to 0 and *)
(* the receiver is not in a byte-gathering state (RX_SYNCH0, RX_SYNCH).    *)
C17_OverflowLeavesGathering ==
  ob.wraps >= 2 =>
    /\ ob.interval = 255
    /\ rx.overflow = 0
    /\ rx.state \notin {RX_SYNCH0, RX_SYNCH}

(* The clock recovery of sw_uart.c, as C20 states it for frame.c: time0 is *)
(* left unchanged when the state after the edge is RX_SYNCH and set to the *)
(* time of the edge otherwise.  uart_rx_enable zeroes rx.time.             *)
UartClockRecovery ==
  [][(rx'.level # rx.lastLevel /\ rx'.time > rx.time)
     => rx'.time0 = IF rx'.state = RX_SYNCH THEN rx.time0 ELSE rx'.time]_vars

====
